---- MODULE Spec2Model ----
(***************************************************************************)
(* Slash products of st-graphs (ST_Graph_Generator_Notebook.ipynb).        *)
(*                                                                         *)
(* A networkx Graph over the nodes 0..N-1 is modelled by its adjacency     *)
(* matrix, a function [0..N-1 -> [0..N-1 -> {0,1}]].  The model follows    *)
(* slash_H_into_G edge by edge and slash_power iteration by iteration.     *)
(***************************************************************************)
EXTENDS Integers, Sequences, FiniteSets

\* ------------------------------------------------------------------ bounds
\* Largest G of a direct slash_H_into_G call (number of vertices).
MaxGVerts == 3
\* Largest H of a direct slash_H_into_G call (number of vertices).
MaxHVerts == 3
\* Largest base graph of a slash_power call (number of vertices).
MaxPowVerts == 3
\* Largest iteration count n of a slash_power call.
MaxN == 3
\* n of a slash_power call ranges over -MaxNeg..MaxN.
MaxNeg == 1
\* A slash_power call is explored only while the G of its last
\* slash_H_into_G call has at most MaxLoop edges (|E|^(n-2) <= MaxLoop).
MaxLoop == 16

\* ------------------------------------------------------------------ graphs
Verts(N) == 0..(N - 1)

Pairs(N) == {p \in Verts(N) \X Verts(N) : p[1] < p[2]}

\* The symmetric 0/1 matrix with zero diagonal whose edges are S.
MatOf(N, S) ==
  [r \in Verts(N) |-> [c \in Verts(N) |->
     IF <<r, c>> \in S \/ <<c, r>> \in S THEN 1 ELSE 0]]

Graphs(N) == {MatOf(N, S) : S \in SUBSET Pairs(N)}

GraphsUpTo(N) == UNION {Graphs(m) : m \in 1..N}

Max(a, b) == IF a >= b THEN a ELSE b

RECURSIVE Pow(_, _)
Pow(b, e) == IF e <= 0 THEN 1 ELSE b * Pow(b, e - 1)

\* Python's int(a / b): the quotient truncated toward zero (b # 0).
TruncDiv(a, b) ==
  LET aa == IF a < 0 THEN 0 - a ELSE a
      bb == IF b < 0 THEN 0 - b ELSE b
      q  == aa \div bb
  IN IF (a < 0) = (b < 0) THEN q ELSE 0 - q

\* #adjacency matrix of the diamond graph D_1
D1_matrix == MatOf(4, {<<0, 1>>, <<0, 2>>, <<1, 3>>, <<2, 3>>})

\* G.number_of_nodes()
number_of_nodes(M) == Cardinality(DOMAIN M)

\* list(G.edges) of a graph built by nx.from_numpy_array: the nodes are added
\* as 0..N-1 and the edges in row-major order of the nonzero entries, so the
\* adjacency of every node is ascending and G.edges reports each edge once,
\* as (u, v) with u <= v, in row-major order of the upper triangle.
edges(M) ==
  LET N     == number_of_nodes(M)
      cells == [t \in 1..(N * N) |-> <<(t - 1) \div N, (t - 1) % N>>]
  IN SelectSeq(cells, LAMBDA e : e[1] <= e[2] /\ M[e[1]][e[2]] # 0)

\* Variant: the "- 1" of the geometric sum is left out.
comp_slash_power_verts_nominus(initial_vertices, initial_edges, iteration_number) ==
  TruncDiv(2 * (initial_edges - 1)
             + (initial_vertices - 2) * Pow(initial_edges, iteration_number),
           initial_edges - 1)

\* #Computes expected number of vertices for a slash power of a given st-graph
\* int(2 + (V - 2) * (E**n - 1) / (E - 1)), for E # 1 and n >= 0.
comp_slash_power_verts(initial_vertices, initial_edges, iteration_number) ==
  TruncDiv(2 * (initial_edges - 1)
             + (initial_vertices - 2) * (Pow(initial_edges, iteration_number) - 1),
           initial_edges - 1)

\* Variant: only one terminal of H is discounted.
comp_slash_verts_oneterminal(G_verts_, G_edges_, H_verts_, H_edges_) ==
  G_verts_ + G_edges_ * (H_verts_ - 1)

\* #Computes expected number of vertices for a slash product of two graphs
comp_slash_verts(G_verts_, G_edges_, H_verts_, H_edges_) ==
  G_verts_ + G_edges_ * (H_verts_ - 2)

\* np.zeros([n, n])
zeros(N) == [r \in Verts(N) |-> [c \in Verts(N) |-> 0]]

\* if edge[0] > edge[1]: edge = (edge[1], edge[0])
Normalize(edge) == IF edge[1] > edge[2] THEN <<edge[2], edge[1]>> ELSE edge

\* Variant: the block ends with the first vertex of the edge.
block_indices_swapped(edge, start, hv) ==
  <<edge[2]>> \o [t \in 1..Max(hv, 0) |-> start + t - 1] \o <<edge[1]>>

\* block_indices = [edge[0]] + list(range(start, start + H_verts)) + [edge[1]]
block_indices(edge, start, hv) ==
  <<edge[1]>> \o [t \in 1..Max(hv, 0) |-> start + t - 1] \o <<edge[2]>>

\* The position of the last occurrence of x in block (the last write wins).
Pos(block, x) ==
  CHOOSE t \in 1..Len(block) :
    block[t] = x /\ \A s \in (t + 1)..Len(block) : block[s] # x

\* Variant: only the upper triangle of Hm is written.
AssignBlock_upper(Am, block, Hm) ==
  LET inB == {block[t] : t \in 1..Len(block)}
      h   == number_of_nodes(Hm)
      at(x) == IF h = 1 THEN 0 ELSE Pos(block, x) - 1
  IN [r \in DOMAIN Am |-> [c \in DOMAIN Am |->
        IF r \in inB /\ c \in inB /\ at(r) <= at(c)
        THEN Hm[at(r)][at(c)] ELSE Am[r][c]]]

\* Variant: the matrix is cleared before the block is written.
AssignBlock_cleared(Am, block, Hm) ==
  LET inB == {block[t] : t \in 1..Len(block)}
      h   == number_of_nodes(Hm)
      at(x) == IF h = 1 THEN 0 ELSE Pos(block, x) - 1
  IN [r \in DOMAIN Am |-> [c \in DOMAIN Am |->
        IF r \in inB /\ c \in inB THEN Hm[at(r)][at(c)] ELSE 0]]

\* A[np.ix_(block, block)] = Hm, for in-range indices; a 1 x 1 Hm is broadcast.
AssignBlock(Am, block, Hm) ==
  LET inB == {block[t] : t \in 1..Len(block)}
      h   == number_of_nodes(Hm)
      at(x) == IF h = 1 THEN 0 ELSE Pos(block, x) - 1
  IN [r \in DOMAIN Am |-> [c \in DOMAIN Am |->
        IF r \in inB /\ c \in inB THEN Hm[at(r)][at(c)] ELSE Am[r][c]]]

\* The first error the block assignment raises, if any: an index outside the
\* matrix, or a value that cannot be broadcast to the block's shape.
AssignError(Am, block, Hm) ==
  IF \E t \in 1..Len(block) : block[t] >= number_of_nodes(Am) THEN "IndexError"
  ELSE IF number_of_nodes(Hm) # Len(block) /\ number_of_nodes(Hm) # 1
       THEN "ValueError"
       ELSE "none"

\* ------------------------------------------------------------------- state
VARIABLES
  pc,           \* "idle", "slash_loop", "power_loop", "done"
  call,         \* the top-level call: "none", "slash" or "power"
  raised,       \* the exception that ended the call, or "none"
  result,       \* the returned graph (NoGraph while there is none)
  base,         \* slash_power: its argument G
  n,            \* slash_power: its argument n
  i,            \* slash_power: the next value of range(1, n)
  G_i,          \* slash_power: G_i
  G,            \* slash_H_into_G: its argument G
  H_adj_matr,   \* slash_H_into_G: nx.to_numpy_array(H)
  G_edges,      \* slash_H_into_G: list(G.edges)
  G_verts,
  H_verts,      \* H.number_of_nodes() - 2
  num_verts,
  A,            \* the new adjacency matrix
  start_index,
  k,            \* number of edges of G_edges already taken by the loop
  blocks,       \* history: block_indices of every edge taken so far
  powers,       \* history: the values G_i has had
  applications  \* history: number of slash_H_into_G calls of slash_power

vars == <<pc, call, raised, result, base, n, i, G_i, G, H_adj_matr, G_edges,
          G_verts, H_verts, num_verts, A, start_index, k, blocks, powers,
          applications>>

slashVars == <<G, H_adj_matr, G_edges, G_verts, H_verts, num_verts, A,
               start_index, k, blocks>>

powerVars == <<base, n, i, G_i, powers, applications>>

NoGraph == "NoGraph"

SlashInputsG == GraphsUpTo(MaxGVerts) \cup {D1_matrix}
\* H also ranges over the diamond and over the path 0 - 1 - 2 - 3.
SlashInputsH ==
  GraphsUpTo(MaxHVerts)
    \cup {D1_matrix, MatOf(4, {<<0, 1>>, <<1, 2>>, <<2, 3>>})}
PowerInputs  == GraphsUpTo(MaxPowVerts) \cup {D1_matrix}

Init ==
  /\ pc = "idle" /\ call = "none" /\ raised = "none" /\ result = NoGraph
  /\ base = <<>> /\ n = 0 /\ i = 0 /\ G_i = <<>>
  /\ powers = <<>> /\ applications = 0
  /\ G = <<>> /\ H_adj_matr = <<>> /\ G_edges = <<>>
  /\ G_verts = 0 /\ H_verts = 0 /\ num_verts = 0
  /\ A = <<>> /\ start_index = 0 /\ k = 0 /\ blocks = <<>>

\* slash_H_into_G(Gm, Hm) up to the loop: the locals, the allocation of A
\* (np.zeros raises ValueError on a negative dimension) and the cursor.
Enter(Gm, Hm) ==
  LET es == edges(Gm)
      gv == number_of_nodes(Gm)
      hv == number_of_nodes(Hm) - 2
      nv == comp_slash_verts(gv, Len(es), hv + 2, Len(edges(Hm)))
  IN /\ G' = Gm /\ H_adj_matr' = Hm /\ G_edges' = es
     /\ G_verts' = gv /\ H_verts' = hv /\ num_verts' = nv
     /\ k' = 0 /\ blocks' = <<>>
     /\ IF nv < 0
        THEN /\ raised' = "ValueError" /\ pc' = "done"
             /\ UNCHANGED <<A, start_index>>
        ELSE /\ raised' = "none" /\ pc' = "slash_loop"
             /\ A' = zeros(nv) /\ start_index' = gv

\* A call slash_H_into_G(G, H).
CallSlash ==
  /\ pc = "idle"
  /\ \E Gm \in SlashInputsG, Hm \in SlashInputsH :
       /\ call' = "slash"
       /\ Enter(Gm, Hm)
  /\ UNCHANGED <<result, powerVars>>

\* Variant: the cursor is not moved.
Advance_stuck(start, hv) == start

\* start_index after the inner loop, which counts every fresh label it appends.
Advance(start, hv) == start + Max(hv, 0)

\* One iteration of "for edge in G_edges".
LoopEdge ==
  /\ pc = "slash_loop" /\ k < Len(G_edges)
  /\ LET edge  == Normalize(G_edges[k + 1])
         block == block_indices(edge, start_index, H_verts)
         err   == AssignError(A, block, H_adj_matr)
     IN /\ start_index' = Advance(start_index, H_verts)
        /\ blocks' = Append(blocks, block)
        /\ k' = k + 1
        /\ IF err # "none"
           THEN /\ raised' = err /\ pc' = "done" /\ UNCHANGED A
           ELSE /\ A' = AssignBlock(A, block, H_adj_matr)
                /\ UNCHANGED <<raised, pc>>
  /\ UNCHANGED <<call, result, powerVars, G, H_adj_matr, G_edges, G_verts,
                 H_verts, num_verts>>

\* slash_product = nx.from_numpy_array(A); return slash_product
SlashReturn ==
  /\ pc = "slash_loop" /\ k = Len(G_edges)
  /\ IF call = "slash"
     THEN /\ result' = A /\ pc' = "done"
          /\ UNCHANGED powerVars
     ELSE /\ G_i' = A /\ i' = i + 1 /\ pc' = "power_loop"
          /\ powers' = Append(powers, A)
          /\ UNCHANGED <<result, base, n, applications>>
  /\ UNCHANGED <<call, raised, slashVars>>

\* The number of edges of the G of the last slash_H_into_G call of
\* slash_power(Gm, nn) stays within MaxLoop.
WithinLoopBound(Gm, nn) ==
  nn <= 2 \/ Pow(Len(edges(Gm)), nn - 2) * Len(edges(Gm)) <= MaxLoop

\* A call slash_power(G, n): G_i = G.
CallPower ==
  /\ pc = "idle"
  /\ \E Gm \in PowerInputs, nn \in (0 - MaxNeg)..MaxN :
       /\ WithinLoopBound(Gm, nn)
       /\ base' = Gm /\ n' = nn /\ G_i' = Gm /\ i' = 1
       /\ powers' = <<Gm>>
  /\ call' = "power" /\ pc' = "power_loop" /\ applications' = 0
  /\ UNCHANGED <<raised, result, slashVars>>

\* Variant: the previous result is spliced into itself.
PowerIter_self ==
  /\ pc = "power_loop" /\ i < n
  /\ Enter(G_i, G_i)
  /\ applications' = applications + 1
  /\ UNCHANGED <<call, result, base, n, i, G_i, powers>>

\* for i in range(1, n): G_i = slash_H_into_G(G_i, G)
PowerIter ==
  /\ pc = "power_loop" /\ i < n
  /\ Enter(G_i, base)
  /\ applications' = applications + 1
  /\ UNCHANGED <<call, result, base, n, i, G_i, powers>>

\* return G_i
PowerReturn ==
  /\ pc = "power_loop" /\ ~(i < n)
  /\ result' = G_i /\ pc' = "done"
  /\ UNCHANGED <<call, raised, base, n, i, G_i, powers, applications, slashVars>>

Next ==
  \/ CallSlash
  \/ LoopEdge
  \/ SlashReturn
  \/ CallPower
  \/ PowerIter
  \/ PowerReturn

Spec == Init /\ [][Next]_vars

TypeOK ==
  /\ pc \in {"idle", "slash_loop", "power_loop", "done"}
  /\ call \in {"none", "slash", "power"}
  /\ raised \in {"none", "ValueError", "IndexError"}
  /\ k \in 0..Len(G_edges)

\* ------------------------------------------------------- claim vocabulary
\* Symmetric with a zero diagonal.
IsValid(M) ==
  \A r \in DOMAIN M :
    /\ M[r][r] = 0
    /\ \A c \in DOMAIN M : M[r][c] = M[c][r]

\* The number of edges, counted on the upper triangle of the matrix.
NumEdges(M) ==
  Cardinality({p \in Pairs(number_of_nodes(M)) : M[p[1]][p[2]] # 0})

NumVertsH == number_of_nodes(H_adj_matr)

HasTerminals == NumVertsH >= 2

ValidInputs == IsValid(G) /\ IsValid(H_adj_matr) /\ HasTerminals

\* The loop of slash_H_into_G is over: A is the matrix it returns.
Returned == pc = "slash_loop" /\ k = Len(G_edges)

\* |V_G| + |E_G| * (|V_H| - 2), from the matrices of G and H.
ExpectedVerts ==
  number_of_nodes(G) + NumEdges(G) * (NumVertsH - 2)

BlockSet(block) == {block[t] : t \in 1..Len(block)}

FreshSet(block) == {block[t] : t \in 2..(Len(block) - 1)}

\* Two different edges of G_edges have a common endpoint.
SharedEndpoint ==
  \E a, b \in 1..Len(G_edges) :
    a # b /\ {G_edges[a][1], G_edges[a][2]} \cap {G_edges[b][1], G_edges[b][2]} # {}

\* C1: for valid G and valid H with at least 2 vertices, slash_H_into_G
\* returns, and the returned graph has |V_G| + |E_G| * (|V_H| - 2) vertices.
Thm_C1 ==
  ValidInputs =>
    /\ (pc = "done" /\ call = "slash") =>
         raised = "none" /\ number_of_nodes(result) = ExpectedVerts
    /\ Returned => number_of_nodes(A) = ExpectedVerts

Wit_C1 ==
  /\ pc = "done" /\ call = "slash" /\ ValidInputs
  /\ NumEdges(G) >= 2 /\ NumVertsH >= 3
  /\ number_of_nodes(result) > number_of_nodes(G)

\* C4: for valid G and H, the new adjacency matrix is symmetric with a zero
\* diagonal after every edge of G that has been processed, also when several
\* edges share an endpoint.
Thm_C4 ==
  (pc = "slash_loop" /\ ValidInputs) => IsValid(A)

Wit_C4 ==
  /\ Returned /\ ValidInputs /\ SharedEndpoint
  /\ NumEdges(H_adj_matr) >= 2 /\ NumEdges(A) > 0

\* C5: for valid G and H, the returned graph has |E_G| * |E_H| edges; and
\* slash_power(D1, 2) has 12 vertices and 16 edges.
Thm_C5 ==
  /\ (Returned /\ ValidInputs) =>
        NumEdges(A) = NumEdges(G) * NumEdges(H_adj_matr)
  /\ (pc = "done" /\ call = "power" /\ base = D1_matrix /\ n = 2) =>
        /\ raised = "none"
        /\ number_of_nodes(result) = 12
        /\ NumEdges(result) = 16

Wit_C5 ==
  /\ pc = "done" /\ call = "power" /\ base = D1_matrix /\ n = 2
  /\ result = A /\ NumEdges(G) = 4 /\ NumEdges(H_adj_matr) = 4

\* The block of the kk-th (0-based) edge in the reference construction.
RefBlock(Gm, Hm, kk) ==
  LET e == edges(Gm)[kk + 1]
      m == number_of_nodes(Hm) - 2
  IN <<e[1]>> \o [t \in 1..m |-> number_of_nodes(Gm) + kk * m + t - 1] \o <<e[2]>>

\* C8: the returned matrix is the reference construction: H is copied onto
\* every block, every entry that no block indexes is 0, and two carried-over
\* vertices are adjacent only if they are an edge of G and H[0][last] = 1.
Thm_C8 ==
  (Returned /\ ValidInputs) =>
    LET ks   == 0..(Len(edges(G)) - 1)
        last == NumVertsH - 1
        blk  == [kk \in ks |-> RefBlock(G, H_adj_matr, kk)]
    IN /\ \A kk \in ks : \A ii, jj \in 0..last :
            A[blk[kk][ii + 1]][blk[kk][jj + 1]] = H_adj_matr[ii][jj]
       /\ \A r, c \in DOMAIN A :
            (~ \E kk \in ks : r \in BlockSet(blk[kk]) /\ c \in BlockSet(blk[kk]))
              => A[r][c] = 0
       /\ \A u, v \in DOMAIN G :
            (u # v /\ A[u][v] # 0) => (G[u][v] # 0 /\ H_adj_matr[0][last] # 0)

Wit_C8 ==
  /\ Returned /\ ValidInputs /\ SharedEndpoint
  /\ NumVertsH >= 3 /\ H_adj_matr[0][NumVertsH - 1] # 0
  /\ H_adj_matr[0][1] # 0 /\ H_adj_matr[1][NumVertsH - 1] = 0
  /\ \E u, v \in DOMAIN G : u # v /\ A[u][v] # 0

\* C9: with |V_H| >= 2 the cursor is |V_G| + k * (|V_H| - 2) after k edges
\* (|V_G| at the start, the total vertex count at the end); the fresh labels
\* of different edges are disjoint from each other and from 0..|V_G|-1, stay
\* below the total, and two blocks share only carried-over endpoints.
Thm_C9 ==
  (pc = "slash_loop" /\ HasTerminals) =>
    LET VG == number_of_nodes(G)
    IN /\ start_index = VG + k * (NumVertsH - 2)
       /\ k = 0 => start_index = VG
       /\ k = Len(G_edges) => start_index = ExpectedVerts
       /\ Len(blocks) = k
       /\ \A a \in 1..Len(blocks) :
            /\ Len(blocks[a]) = NumVertsH
            /\ FreshSet(blocks[a]) \cap Verts(VG) = {}
            /\ \A x \in BlockSet(blocks[a]) : x >= 0 /\ x <= ExpectedVerts - 1
            /\ \A b \in 1..Len(blocks) :
                 a # b =>
                   /\ FreshSet(blocks[a]) \cap FreshSet(blocks[b]) = {}
                   /\ BlockSet(blocks[a]) \cap BlockSet(blocks[b])
                        \subseteq ({G_edges[a][1], G_edges[a][2]}
                                     \cap {G_edges[b][1], G_edges[b][2]}
                                     \cap Verts(VG))

Wit_C9 ==
  /\ Returned /\ HasTerminals /\ SharedEndpoint
  /\ NumVertsH >= 4 /\ Len(blocks) >= 3
  /\ start_index = num_verts /\ start_index > number_of_nodes(G)

PowerDone == pc = "done" /\ call = "power"

\* C2: for valid G with |E_G| # 1 and n >= 1, slash_power(G, n) has
\* comp_slash_power_verts(|V_G|, |E_G|, n) vertices, and the division in
\* that formula leaves no remainder.
Thm_C2 ==
  (PowerDone /\ n >= 1 /\ IsValid(base) /\ NumEdges(base) # 1) =>
    LET V == number_of_nodes(base)
        E == NumEdges(base)
        d == IF E = 0 THEN 1 ELSE E - 1
    IN /\ raised = "none"
       /\ number_of_nodes(result) = comp_slash_power_verts(V, E, n)
       /\ ((V - 2) * (Pow(E, n) - 1)) % d = 0
       /\ number_of_nodes(result) * (E - 1)
            = 2 * (E - 1) + (V - 2) * (Pow(E, n) - 1)

Wit_C2 ==
  /\ PowerDone /\ n >= 3 /\ IsValid(base)
  /\ NumEdges(base) >= 3 /\ number_of_nodes(base) >= 3
  /\ number_of_nodes(result) > number_of_nodes(base)

\* slash_H_into_G as a function of its arguments: the edges are taken in
\* order, each one's block is assigned, and the cursor moves on.
RECURSIVE SlashFrom(_, _, _, _, _)
SlashFrom(Am, es, kk, start, Hm) ==
  IF kk >= Len(es) THEN Am
  ELSE LET hv    == number_of_nodes(Hm) - 2
           block == block_indices(Normalize(es[kk + 1]), start, hv)
       IN SlashFrom(AssignBlock(Am, block, Hm), es, kk + 1,
                    Advance(start, hv), Hm)

SlashOf(Gm, Hm) ==
  LET es == edges(Gm)
      gv == number_of_nodes(Gm)
  IN SlashFrom(zeros(comp_slash_verts(gv, Len(es), number_of_nodes(Hm),
                                       Len(edges(Hm)))),
               es, 0, gv, Hm)

\* C3: slash_power(G, 1) is G itself; for n >= 2 the result is
\* slash_H_into_G(slash_power(G, n-1), G), with the original G as H at every
\* step; slash_power(G, 3) = slash_H_into_G(slash_H_into_G(G, G), G); and
\* slash_H_into_G has been applied n - 1 times.
Thm_C3 ==
  /\ (call = "power" /\ pc \in {"power_loop", "done"}) =>
       /\ Len(powers) = i
       /\ powers[1] = base
       /\ G_i = powers[Len(powers)]
       /\ applications = Len(powers) - 1
       /\ \A j \in 2..Len(powers) :
            powers[j] = SlashOf(powers[j - 1], base)
  /\ (call = "power" /\ pc = "slash_loop") => H_adj_matr = base /\ G = G_i
  /\ (PowerDone /\ n >= 1) =>
       /\ raised = "none"
       /\ result = powers[n]
       /\ Len(powers) = n
       /\ applications = n - 1
       /\ n = 1 => result = base
       /\ n = 3 => result = SlashOf(SlashOf(base, base), base)

Wit_C3 ==
  /\ PowerDone /\ n = 3 /\ applications = 2
  /\ NumEdges(base) >= 3
  /\ result = SlashOf(SlashOf(base, base), base)
  /\ result # SlashOf(base, base)

\* C6 (as stated): a call slash_H_into_G(G, H) with an H of fewer than 2
\* vertices ends with an error and returns no graph.
Claim_C6 ==
  (call = "slash" /\ NumVertsH < 2) =>
    /\ pc # "done" \/ raised # "none"
    /\ result = NoGraph

\* C7 (as stated): a call slash_power(G, n) with n <= 0 ends with an error
\* and returns no graph.
Claim_C7 ==
  (call = "power" /\ n <= 0) =>
    /\ pc # "done" \/ raised # "none"
    /\ result = NoGraph

\* The block of the kk-th edge spliced the other way round: v takes the place
\* of H's vertex 0 and u that of H's last vertex.
RevBlock(Gm, Hm, kk) ==
  LET e == edges(Gm)[kk + 1]
      m == number_of_nodes(Hm) - 2
  IN <<e[2]>> \o [t \in 1..m |-> number_of_nodes(Gm) + kk * m + t - 1] \o <<e[1]>>

\* The graph obtained by splicing H into every edge of G the other way round:
\* entry (r, c) is H[i][j] where a block has r at position i and c at
\* position j, and 0 where no block has both.
ReverseSplice(Gm, Hm) ==
  LET ks  == 0..(Len(edges(Gm)) - 1)
      h   == number_of_nodes(Hm)
      N   == number_of_nodes(Gm) + Len(edges(Gm)) * (h - 2)
      blk == [kk \in ks |-> RevBlock(Gm, Hm, kk)]
      set == [kk \in ks |-> BlockSet(blk[kk])]
  IN [r \in Verts(N) |-> [c \in Verts(N) |->
        IF \E kk \in ks :
             /\ r \in set[kk] /\ c \in set[kk]
             /\ \E ii, jj \in 1..h :
                  blk[kk][ii] = r /\ blk[kk][jj] = c /\ Hm[ii - 1][jj - 1] # 0
        THEN 1 ELSE 0]]

Degree(M, r) == Cardinality({c \in DOMAIN M : M[r][c] # 0})

DegreeCount(M, d) == Cardinality({r \in DOMAIN M : Degree(M, r) = d})

Bijections(N) ==
  {p \in [Verts(N) -> Verts(N)] : \A a, b \in Verts(N) : a # b => p[a] # p[b]}

\* Graph isomorphism: a bijection of the vertices that carries edges to edges
\* and non-edges to non-edges (isomorphic graphs have equal degree counts).
Isomorphic(M1, M2) ==
  /\ number_of_nodes(M1) = number_of_nodes(M2)
  /\ \A d \in 0..number_of_nodes(M1) : DegreeCount(M1, d) = DegreeCount(M2, d)
  /\ \E p \in Bijections(number_of_nodes(M1)) :
       \A r, c \in DOMAIN M1 : (M1[r][c] # 0) = (M2[p[r]][p[c]] # 0)

\* The automorphisms of H that exchange its vertex 0 and its last vertex.
SwapAutomorphisms(Hm) ==
  LET h     == number_of_nodes(Hm)
      inner == 1..(h - 2)
      ext(q) == [a \in Verts(h) |->
                   IF a = 0 THEN h - 1 ELSE IF a = h - 1 THEN 0 ELSE q[a]]
  IN {s \in {ext(q) : q \in [inner -> inner]} :
        /\ \A a, b \in inner : a # b => s[a] # s[b]
        /\ \A a, b \in Verts(h) : Hm[s[a]][s[b]] = Hm[a][b]}

\* The vertex map that fixes the carried-over vertices and moves the fresh
\* vertices of every block as s moves H's internal vertices.
BlockwiseMap(s, gv, h, x) ==
  IF x < gv THEN x
  ELSE LET m == h - 2
       IN gv + ((x - gv) \div m) * m + (s[((x - gv) % m) + 1] - 1)

====
